---------------------------- MODULE Spec2Model ----------------------------
(***************************************************************************)
(* Model of NankaiEarthquakeSimulator (src/earthquake_app.py).             *)
(*                                                                         *)
(* Python floats are modelled as fixed-point integers.  Unless a comment   *)
(* says otherwise a real number x is the integer x * 10^6 ("micro"):       *)
(* angles are micro-radians, distances micro-kilometres, intensities and   *)
(* wave heights micro-units, rates and ratios parts per million.           *)
(* Coordinates are kept in 10^-4 degree, the precision of the catalog.     *)
(* TLC integers are 32 bits wide, so products are computed in limbs of     *)
(* 1000 (Mul, MulFix) and never leave that range.  The library functions   *)
(* math.sin, cos, sqrt, atan2, log10 and exp are computed by series and    *)
(* Newton steps to an accuracy of about 10^-5.                             *)
(***************************************************************************)
EXTENDS Integers, Sequences, FiniteSets

ONE == 1000 * 1000

Min(a, b) == IF a <= b THEN a ELSE b

Max(a, b) == IF a >= b THEN a ELSE b

Abs(a) == IF a >= 0 THEN a ELSE -a

----------------------------------------------------------------------------
(* Fixed-point arithmetic                                                   *)

\* a * b on two limbs: <<q, f>> with a * b = q * 10^6 + f and 0 <= f < 10^6.
MulFix(a, b) ==
  LET a1 == a \div 1000
      a0 == a % 1000
      b1 == b \div 1000
      b0 == b % 1000
      mid == a1 * b0 + a0 * b1
      low == (mid % 1000) * 1000 + a0 * b0
  IN  <<a1 * b1 + mid \div 1000 + low \div ONE, low % ONE>>

\* The product of two micro numbers as a micro number: floor(a * b / 10^6).
Mul(a, b) == MulFix(a, b)[1]

\* a / b of two non-negative micro numbers as a micro number, by long
\* division in base ten (six fractional digits); b > 0.
RECURSIVE DivDigits(_, _, _)
DivDigits(r, b, n) ==
  IF n = 0 THEN 0
  ELSE LET q == (r * 10) \div b
           s == (r * 10) % b
           p == IF n = 6 THEN 100000 ELSE IF n = 5 THEN 10000
                ELSE IF n = 4 THEN 1000 ELSE IF n = 3 THEN 100
                ELSE IF n = 2 THEN 10 ELSE 1
       IN  q * p + DivDigits(s, b, n - 1)

Div(a, b) == (a \div b) * ONE + DivDigits(a % b, b, 6)

\* Integer square root: the largest r with r * r <= n, by bisection.
RECURSIVE ISqrtIn(_, _, _)
ISqrtIn(n, lo, hi) ==
  IF lo >= hi THEN lo
  ELSE LET m == (lo + hi + 1) \div 2
       IN  IF m * m <= n THEN ISqrtIn(n, m, hi) ELSE ISqrtIn(n, lo, m - 1)

ISqrt(n) == ISqrtIn(n, 0, Min(n, 46340))

\* One Newton step of the square root of x from the estimate r0.
Newton(x, r0) == IF r0 = 0 THEN 0 ELSE (r0 + Div(x, r0)) \div 2

\* math.sqrt of a micro number below 2147: a first estimate to three
\* digits, then one Newton step.
Sqrt(x) == Newton(x, 1000 * ISqrt(x))

\* Python's round(x, 0) and round(x, 1) of a non-negative float: to the
\* nearest multiple of `unit`, a tie going to the even multiple.
RoundTo(x, unit) ==
  LET q == x \div unit
      r == x % unit
  IN  IF 2 * r > unit \/ (2 * r = unit /\ q % 2 = 1)
      THEN (q + 1) * unit ELSE q * unit

----------------------------------------------------------------------------
(* math library                                                             *)

PI == 3141593

LN2 == 693147

LN10 == 2302585

\* math.radians of an angle given in 10^-4 degree.
Radians(d) == Mul(d * 100, 17453)

\* math.sin, by its Taylor series (the model's arguments are below 0.1).
Sin(x) ==
  LET x2 == Mul(x, x)
      x3 == Mul(x, x2)
      x5 == Mul(x3, x2)
      x7 == Mul(x5, x2)
  IN  x - x3 \div 6 + x5 \div 120 - x7 \div 5040

\* math.cos, by its Taylor series (the model's arguments are below 0.7).
Cos(x) ==
  LET x2 == Mul(x, x)
      x4 == Mul(x2, x2)
      x6 == Mul(x4, x2)
      x8 == Mul(x6, x2)
      x10 == Mul(x8, x2)
  IN  ONE - x2 \div 2 + x4 \div 24 - x6 \div 720 + x8 \div 40320
          - x10 \div 3628800

\* atan of a ratio t in [0, 1], by its Taylor series.
Atan(t) ==
  LET t2 == Mul(t, t)
      t3 == Mul(t, t2)
      t5 == Mul(t3, t2)
      t7 == Mul(t5, t2)
      t9 == Mul(t7, t2)
  IN  t - t3 \div 3 + t5 \div 5 - t7 \div 7 + t9 \div 9

\* math.atan2(y, x) for y >= 0 and x >= 0.
Atan2(y, x) ==
  IF y = 0 THEN 0
  ELSE IF x = 0 THEN PI \div 2
  ELSE IF y <= x THEN Atan(Div(y, x))
  ELSE PI \div 2 - Atan(Div(x, y))

\* math.log of a micro number x >= 1: halve down to [1, 2), then
\* ln m = 2 atanh((m - 1) / (m + 1)).
RECURSIVE Ln(_)
Ln(x) ==
  IF x >= 2 * ONE THEN LN2 + Ln(x \div 2)
  ELSE LET z == Div(x - ONE, x + ONE)
           z2 == Mul(z, z)
           z3 == Mul(z, z2)
           z5 == Mul(z3, z2)
           z7 == Mul(z5, z2)
           z9 == Mul(z7, z2)
           z11 == Mul(z9, z2)
       IN  2 * (z + z3 \div 3 + z5 \div 5 + z7 \div 7 + z9 \div 9
                + z11 \div 11)

\* math.log10 of a micro number x >= 1.
Log10(x) == Div(Ln(x), LN10)

\* math.exp(-x) for x >= 0: halve the argument down to [0, 1/2], take the
\* Taylor series there and square back.
RECURSIVE ExpNeg(_)
ExpNeg(x) ==
  IF 2 * x > ONE
  THEN LET e == ExpNeg(x \div 2) IN Mul(e, e)
  ELSE LET x2 == Mul(x, x)
           x3 == Mul(x2, x)
           x4 == Mul(x3, x)
           x5 == Mul(x4, x)
           x6 == Mul(x5, x)
           x7 == Mul(x6, x)
       IN  ONE - x + x2 \div 2 - x3 \div 6 + x4 \div 24 - x5 \div 120
               + x6 \div 720 - x7 \div 5040


----------------------------------------------------------------------------
(* Data: EarthquakeParameters, RegionData and the region catalog            *)

\* EarthquakeParameters(magnitude, depth, epicenter_lat, epicenter_lon):
\* magnitude in tenths, depth in km, the epicenter in 10^-4 degree.
EarthquakeParameters(magnitude, depth, epicenter_lat, epicenter_lon) ==
  [magnitude |-> magnitude, depth |-> depth,
   epicenter_lat |-> epicenter_lat, epicenter_lon |-> epicenter_lon]

\* RegionData(name, lat, lon, population, buildings, wooden_ratio, coastal,
\* elevation): lat and lon in 10^-4 degree, wooden_ratio in percent,
\* elevation in metres.
RegionData(name, lat, lon, population, buildings, wooden, coastal, elev) ==
  [name |-> name, lat |-> lat, lon |-> lon, population |-> population,
   buildings |-> buildings, wooden_ratio |-> wooden,
   coastal |-> coastal, elevation |-> elev]

\* self.regions as __init__ builds it.
InitRegions ==
  << RegionData("Shizuoka", 349756, 1383827, 700000, 280000, 40, TRUE, 20),
     RegionData("Hamamatsu", 347108, 1377261, 800000, 320000, 45, TRUE, 10),
     RegionData("Nagoya", 351815, 1369066, 2300000, 920000, 30, FALSE, 15),
     RegionData("Tsu", 347185, 1365056, 280000, 112000, 50, TRUE, 5),
     RegionData("Osaka", 346937, 1355023, 2700000, 1080000, 25, TRUE, 5),
     RegionData("Wakayama", 342306, 1351708, 360000, 144000, 45, TRUE, 8),
     RegionData("Kochi", 335597, 1335311, 330000, 132000, 50, TRUE, 3),
     RegionData("Tokushima", 340658, 1345594, 260000, 104000, 48, TRUE, 2) >>

----------------------------------------------------------------------------
(* calculate_distance                                                       *)

R == 6371

\* s ** 2 of a micro number |s| <= 1, kept to nine digits ("nano"): the
\* haversine term `a` is of the order 10^-3 and is carried at this scale.
SqNano(s) ==
  LET t == Abs(s)
      s1 == t \div 1000
      s0 == t % 1000
  IN  s1 * s1 * 1000 + 2 * s1 * s0 + (s0 * s0) \div 1000

\* One Newton step of the square root of the nano number a from the micro
\* estimate r0.
NewtonNano(a, r0) ==
  IF r0 = 0 THEN 0
  ELSE (r0 + (a \div r0) * 1000 + ((a % r0) * 1000) \div r0) \div 2

\* math.sqrt of a nano number below 0.2, as a micro number.
SqrtNano(a) == NewtonNano(a, 10 * ISqrt(10 * a))

\* a = sin(dLat/2)**2 + cos(lat1) * cos(lat2) * sin(dLon/2)**2, nano.
HaversineA(lat1, lon1, lat2, lon2) ==
  LET dLat == Radians(lat2 - lat1)
      dLon == Radians(lon2 - lon1)
  IN  SqNano(Sin(dLat \div 2))
      + Mul(Mul(Cos(Radians(lat1)), Cos(Radians(lat2))),
            SqNano(Sin(dLon \div 2)))

\* c = 2 * math.atan2(math.sqrt(a), math.sqrt(1 - a))
HaversineC(a) == 2 * Atan2(SqrtNano(a), Sqrt(ONE - a \div 1000))

\* The haversine distance in micro-kilometres.
calculate_distance(lat1, lon1, lat2, lon2) ==
  R * HaversineC(HaversineA(lat1, lon1, lat2, lon2))

----------------------------------------------------------------------------
(* calculate_seismic_intensity                                              *)

DepthFactorUnscaled(earthquake) == ONE - Mul(earthquake.depth * ONE, 300000)

\* depth_factor = 1 - (earthquake.depth / 100) * 0.3
DepthFactor(earthquake) == ONE - Mul(earthquake.depth * 10000, 300000)

\* if distance < 1: distance = 1
FloorDistance(distance) == IF distance < ONE THEN ONE ELSE distance

\* magnitude - 3.5 * log10(distance) - 0.006 * distance + 1.5
RawIntensity(magnitude, distance) ==
  magnitude * 100000 - (35 * Log10(distance)) \div 10
  - Mul(6000, distance) + 1500000

ClampBelowOnly(intensity) == Max(0, intensity)

\* min(7, max(0, intensity))
Clamp(intensity) == Min(7 * ONE, Max(0, intensity))

\* The distance from the epicenter to the region, as both models compute it.
EpicentralDistance(earthquake, region) ==
  calculate_distance(earthquake.epicenter_lat, earthquake.epicenter_lon,
                     region.lat, region.lon)

\* The intensity, a micro number in [0, 7].
calculate_seismic_intensity(earthquake, region) ==
  Clamp(Mul(RawIntensity(earthquake.magnitude,
                         FloorDistance(EpicentralDistance(earthquake,
                                                          region))),
            DepthFactor(earthquake)))

----------------------------------------------------------------------------
(* estimate_building_damage                                                 *)

\* A float product kept exactly on two limbs, x = <<q, f>> = q + f / 10^6,
\* multiplied by 1 / k (0.5, 0.2, 0.1, 0.02 are 1/2, 1/5, 1/10, 1/50).
DivFix(x, k) == <<x[1] \div k, ((x[1] % k) * ONE + x[2]) \div k>>

\* int() of a non-negative two-limb number.
IntFix(x) == x[1]

\* The intensity tiers: <<collapse_rate, severe_rate>> in parts per million
\* for a wooden ratio w in parts per million.
DamageRates(intensity, w) ==
  IF intensity >= 7 * ONE
  THEN <<Mul(300000, w) + Mul(50000, ONE - w),
         Mul(400000, w) + Mul(150000, ONE - w)>>
  ELSE IF intensity >= 6500000
  THEN <<Mul(150000, w) + Mul(20000, ONE - w),
         Mul(300000, w) + Mul(100000, ONE - w)>>
  ELSE IF intensity >= 6 * ONE
  THEN <<Mul(50000, w) + Mul(5000, ONE - w),
         Mul(150000, w) + Mul(50000, ONE - w)>>
  ELSE IF intensity >= 5500000
  THEN <<Mul(10000, w), Mul(50000, w) + Mul(10000, ONE - w)>>
  ELSE <<0, IF intensity >= 5 * ONE THEN Mul(10000, w) ELSE 0>>

DamageCountsNoModerate(buildings, collapse_rate, severe_rate) ==
  LET collapsed == IntFix(MulFix(buildings, collapse_rate))
      severe_damage == IntFix(MulFix(buildings, severe_rate))
      moderate_damage == IntFix(DivFix(MulFix(buildings, severe_rate), 2))
  IN  [collapsed |-> collapsed, severe |-> severe_damage,
       moderate |-> moderate_damage,
       undamaged |-> buildings - collapsed - severe_damage]

DamageCountsRounded(buildings, collapse_rate, severe_rate) ==
  LET collapsed == IntFix(MulFix(buildings, collapse_rate))
      severe_damage == IntFix(MulFix(buildings, severe_rate))
      half == DivFix(MulFix(buildings, severe_rate), 2)
      moderate_damage == IF 2 * half[2] >= ONE THEN half[1] + 1 ELSE half[1]
  IN  [collapsed |-> collapsed, severe |-> severe_damage,
       moderate |-> moderate_damage,
       undamaged |-> buildings - collapsed - severe_damage - moderate_damage]

\* The three int() conversions and the returned dict.
DamageCounts(buildings, collapse_rate, severe_rate) ==
  LET collapsed == IntFix(MulFix(buildings, collapse_rate))
      severe_damage == IntFix(MulFix(buildings, severe_rate))
      moderate_damage == IntFix(DivFix(MulFix(buildings, severe_rate), 2))
  IN  [collapsed |-> collapsed, severe |-> severe_damage,
       moderate |-> moderate_damage,
       undamaged |-> buildings - collapsed - severe_damage - moderate_damage]

estimate_building_damage(intensity, region) ==
  LET rates == DamageRates(intensity, region.wooden_ratio * 10000)
  IN  DamageCounts(region.buildings, rates[1], rates[2])

----------------------------------------------------------------------------
(* estimate_tsunami                                                         *)

BaseHeight(magnitude) ==
  IF magnitude >= 80 THEN 10 ELSE IF magnitude >= 75 THEN 5 ELSE 2

\* tsunami_height = base_height * math.exp(-distance / 500), in micro-metres.
RawWaveHeight(magnitude, distance) ==
  BaseHeight(magnitude) * ExpNeg(distance \div 500)

ProtectedHeightAtOrAbove(elevation, tsunami_height) ==
  IF elevation * ONE >= tsunami_height THEN 0 ELSE tsunami_height

\* if region.elevation > tsunami_height: tsunami_height = 0
ProtectedHeight(elevation, tsunami_height) ==
  IF elevation * ONE > tsunami_height THEN 0 ELSE tsunami_height

InundationRate(tsunami_height) ==
  IF tsunami_height > 5 * ONE THEN 300000
  ELSE IF tsunami_height > 2 * ONE THEN 150000
  ELSE IF tsunami_height > 0 THEN 50000
  ELSE 0

\* estimate_tsunami past the coastal test.  The inundation rate is chosen
\* from the unrounded height; the returned height is rounded to 0.1 m and
\* the arrival time to a whole minute.
\* The inundation tiers and the returned dict.
TsunamiDict(tsunami_height, arrival_time) ==
  [height |-> RoundTo(tsunami_height, 100000),
   arrival |-> RoundTo(arrival_time, ONE),
   inundation |-> InundationRate(tsunami_height)]

\* Lines 103-130 for the distance computed at lines 98-101.
CoastalTsunamiAt(earthquake, region, distance) ==
  TsunamiDict(ProtectedHeight(region.elevation,
                              RawWaveHeight(earthquake.magnitude, distance)),
              distance \div 12)

CoastalTsunami(earthquake, region) ==
  CoastalTsunamiAt(earthquake, region, EpicentralDistance(earthquake, region))

estimate_tsunami_unguarded(earthquake, region) ==
  CoastalTsunami(earthquake, region)

\* if not region.coastal: return zeros; else the coastal computation.
estimate_tsunami(earthquake, region) ==
  IF ~region.coastal
  THEN [height |-> 0, arrival |-> 0, inundation |-> 0]
  ELSE CoastalTsunami(earthquake, region)

----------------------------------------------------------------------------
(* estimate_casualties                                                      *)

\* non_evacuated = affected_population * (1 - evacuation_rate), two limbs.
NonEvacuated(tsunami, region) ==
  LET affected_population == Mul(region.population, tsunami.inundation)
      evacuation_rate == Min(800000, tsunami.arrival \div 60)
  IN  MulFix(affected_population, ONE - evacuation_rate)

\* The tsunami branch: <<tsunami_deaths, tsunami_injuries>>.  The height it
\* tests is the one estimate_tsunami returned.
TsunamiCasualties(tsunami, region) ==
  IF tsunami.height > 0
  THEN LET non_evacuated == NonEvacuated(tsunami, region)
       IN  <<IntFix(DivFix(non_evacuated,
                           IF tsunami.height > 2 * ONE THEN 10 ELSE 50)),
             IntFix(DivFix(non_evacuated, 5))>>
  ELSE <<0, 0>>

SplitInjuriesShort(total) == <<Mul(total, 300000), Mul(total, 600000)>>

\* <<int(total * 0.3), int(total * 0.7)>>, in exact decimal arithmetic.  The
\* binary product total * 0.7 can fall just below an exact integer (2860 * 0.7
\* truncates to 2001), so the code's minor count is this one or one less.
SplitInjuries(total) == <<Mul(total, 300000), Mul(total, 700000)>>

estimate_casualties(intensity, building_damage, tsunami, region) ==
  LET building_deaths == Mul(building_damage.collapsed, 10000)
      building_injuries ==
        Mul(building_damage.collapsed + building_damage.severe, 50000)
      wave == TsunamiCasualties(tsunami, region)
      split == SplitInjuries(building_injuries + wave[2])
  IN  [deaths |-> building_deaths + wave[1],
       serious |-> split[1], minor |-> split[2]]

----------------------------------------------------------------------------
(* estimate_infrastructure_damage                                           *)

estimate_infrastructure_damage(intensity, region) ==
  IF intensity >= 6500000
  THEN [electricity |-> 800000, water |-> 900000, gas |-> 850000]
  ELSE IF intensity >= 6 * ONE
  THEN [electricity |-> 500000, water |-> 600000, gas |-> 550000]
  ELSE IF intensity >= 5500000
  THEN [electricity |-> 200000, water |-> 300000, gas |-> 250000]
  ELSE LET low == IF intensity >= 5 * ONE THEN 50000 ELSE 0
       IN  [electricity |-> low, water |-> low, gas |-> low]

----------------------------------------------------------------------------
(* simulate                                                                 *)

VARIABLES
  regions,          \* self.regions
  earthquake,       \* the argument of the running simulate call
  pc,               \* "idle", "loop" (inside the for loop) or "done"
  idx,              \* position of the for loop in self.regions, from 1
  results,          \* the list of rows
  intensity,        \* the loop body's locals, as of the last iteration
  building_damage,
  tsunami,
  casualties,
  history,          \* the first call that returned, its table, and whether
                    \* other parameters, then its own again, were run since
  call,             \* a direct call of one method: its name and arguments
  ret               \* and what it returned

vars == <<regions, earthquake, pc, idx, results, intensity, building_damage,
          tsunami, casualties, history, call, ret>>

simVars == <<regions, earthquake, pc, idx, results, intensity,
             building_damage, tsunami, casualties, history>>

NoEarthquake == EarthquakeParameters(0, 0, 0, 0)

NoRegion == RegionData("", 0, 0, 0, 0, 0, FALSE, 0)

NoDamage == [collapsed |-> 0, severe |-> 0, moderate |-> 0, undamaged |-> 0]

NoTsunami == [height |-> 0, arrival |-> 0, inundation |-> 0]

NoCasualties == [deaths |-> 0, serious |-> 0, minor |-> 0]

NoCall == [fn |-> "", earthquake |-> NoEarthquake, region |-> NoRegion,
           intensity |-> 0, building_damage |-> NoDamage,
           tsunami |-> NoTsunami]

\* The parameter records the simulator is run with: points of the sidebar's
\* grid (magnitude 7.0-9.0, depth 5-50, latitude 30-36, longitude 130-140).
Magnitudes == {70, 75, 80, 87}

Depths == {5, 10}

Epicenters == {<<330000, 1360000>>, <<350000, 1385000>>, <<300000, 1345000>>}

Earthquakes ==
  {EarthquakeParameters(m, d, e[1], e[2]) :
     m \in Magnitudes, d \in Depths, e \in Epicenters}

\* economic_loss, in units of 10^-2 (the division by 100000000 leaves
\* collapsed * 0.2 + severe * 0.1 + moderate * 0.02).
EconomicLoss(damage) ==
  damage.collapsed * 20 + damage.severe * 10 + damage.moderate * 2

\* The dict appended for one region; rounding and formatting as in the code.
Row(region, i, damage, wave, cas, infrastructure) ==
  [region |-> region.name,
   intensity |-> RoundTo(i, 100000),
   collapsed |-> damage.collapsed,
   severe |-> damage.severe,
   tsunami_height |-> wave.height,
   tsunami_arrival |-> wave.arrival,
   deaths |-> cas.deaths,
   injured |-> cas.serious + cas.minor,
   electricity_pct |-> RoundTo(infrastructure.electricity, 10000) \div 10000,
   water_pct |-> RoundTo(infrastructure.water, 10000) \div 10000,
   economic_loss |-> RoundTo(EconomicLoss(damage), 100) \div 100]

PrependRow(rows, row) == <<row>> \o rows

\* results.append(row)
AppendRow(rows, row) == Append(rows, row)

SimulateBeginKeepingRows(eq) ==
  /\ pc \in {"idle", "done"}
  /\ earthquake' = eq
  /\ pc' = "loop"
  /\ idx' = 1
  /\ UNCHANGED <<regions, results, intensity, building_damage, tsunami,
                 casualties, history, call, ret>>

\* simulate(earthquake) is entered: results = [] and the loop starts.
SimulateBegin(eq) ==
  /\ pc \in {"idle", "done"}
  /\ earthquake' = eq
  /\ pc' = "loop"
  /\ idx' = 1
  /\ results' = <<>>
  /\ UNCHANGED <<regions, intensity, building_damage, tsunami, casualties,
                 history, call, ret>>

\* One iteration of `for region in self.regions`.
LoopStep ==
  /\ pc = "loop"
  /\ idx <= Len(regions)
  /\ \E region \in {regions[idx]} :
     \E i \in {calculate_seismic_intensity(earthquake, region)} :
     \E damage \in {estimate_building_damage(i, region)} :
     \E wave \in {estimate_tsunami(earthquake, region)} :
     \E cas \in {estimate_casualties(i, damage, wave, region)} :
     \E infrastructure \in {estimate_infrastructure_damage(i, region)} :
       /\ intensity' = i
       /\ building_damage' = damage
       /\ tsunami' = wave
       /\ casualties' = cas
       /\ results' = AppendRow(results,
                               Row(region, i, damage, wave, cas,
                                   infrastructure))
  /\ idx' = idx + 1
  /\ UNCHANGED <<regions, earthquake, pc, history, call, ret>>

\* What an observer of the calls remembers after one more has returned.
Remember(h, eq, rows) ==
  IF ~h.set
  THEN [set |-> TRUE, earthquake |-> eq, results |-> rows,
        between |-> FALSE, repeated |-> FALSE]
  ELSE IF eq = h.earthquake
  THEN [h EXCEPT !.repeated = h.between]
  ELSE [h EXCEPT !.between = TRUE, !.repeated = FALSE]

\* The loop is exhausted: return pd.DataFrame(results).  The frame's locals
\* are gone.
Return ==
  /\ pc = "loop"
  /\ idx > Len(regions)
  /\ pc' = "done"
  /\ history' = Remember(history, earthquake, results)
  /\ intensity' = 0
  /\ building_damage' = NoDamage
  /\ tsunami' = NoTsunami
  /\ casualties' = NoCasualties
  /\ UNCHANGED <<regions, earthquake, idx, results, call, ret>>

NoHistory == [set |-> FALSE, earthquake |-> NoEarthquake, results |-> <<>>,
              between |-> FALSE, repeated |-> FALSE]

SimInit ==
  /\ regions = InitRegions
  /\ earthquake = NoEarthquake
  /\ pc = "idle"
  /\ idx = 1
  /\ results = <<>>
  /\ intensity = 0
  /\ building_damage = NoDamage
  /\ tsunami = NoTsunami
  /\ casualties = NoCasualties
  /\ history = NoHistory

Init ==
  /\ SimInit
  /\ call = NoCall
  /\ ret = [returned |-> FALSE]

Next ==
  \/ \E eq \in Earthquakes : SimulateBegin(eq)
  \/ LoopStep
  \/ Return

Spec == Init /\ [][Next]_vars

\* What LoopStep and Return do to the position of the call: the loop moves
\* to the next region, or is exhausted and simulate returns.
Advance ==
  /\ pc = "loop"
  /\ \/ idx <= Len(regions) /\ idx' = idx + 1 /\ pc' = pc
     \/ idx > Len(regions) /\ idx' = idx /\ pc' = "done"

\* The interpreter runs a started call on: a call that can advance does.
\* Nothing obliges the user to start another call.
FairSpec == Spec /\ WF_<<pc, idx>>(Advance)

----------------------------------------------------------------------------
(* The methods called directly, on arguments drawn from bounded sets        *)

MaxBuildings == 40

MaxSevere == 60

UnitMagnitudes == {70, 74, 75, 80, 90}

UnitDepths == {5, 50}

\* Grid points, the corners of the range, and the coordinates of Shizuoka.
UnitEpicenters ==
  {<<330000, 1360000>>, <<350000, 1385000>>, <<300000, 1345000>>,
   <<300000, 1300000>>, <<349756, 1383827>>}

UnitEarthquakes ==
  {EarthquakeParameters(m, d, e[1], e[2]) :
     m \in UnitMagnitudes, d \in UnitDepths, e \in UnitEpicenters}

CatalogRegions == {InitRegions[k] : k \in 1..Len(InitRegions)}

\* Every tier boundary of the damage table and the value just below it.
IntensityLevels ==
  {0, 4999999, 5000000, 5499999, 5500000, 5999999, 6000000, 6499999,
   6500000, 6999999, 7000000}

WoodenRatios == {0, 25, 48, 100}

Elevations == {0, 2, 5, 10, 20}

Populations == {0, 7, 260000}

DamageRegions ==
  CatalogRegions \cup
  {RegionData("test", 0, 0, 0, b, w, FALSE, 0) :
     b \in 0..MaxBuildings, w \in WoodenRatios}

TsunamiRegions ==
  CatalogRegions \cup
  {[InitRegions[k] EXCEPT !.coastal = c, !.elevation = e] :
     k \in {1, 7, 8}, c \in BOOLEAN, e \in Elevations}

CasualtyRegions ==
  {[InitRegions[k] EXCEPT !.population = p] :
     k \in {3, 8}, p \in Populations}

CasualtyEarthquakes ==
  {EarthquakeParameters(m, 5, e[1], e[2]) :
     m \in {70, 75, 90}, e \in {<<300000, 1345000>>, <<330000, 1360000>>}}

DamageDicts ==
  {[collapsed |-> c, severe |-> v, moderate |-> v \div 2, undamaged |-> 0] :
     c \in {0, 140}, v \in 0..MaxSevere}

IntensityCalls ==
  {[NoCall EXCEPT !.fn = "calculate_seismic_intensity",
                  !.earthquake = eq, !.region = r] :
     eq \in UnitEarthquakes, r \in CatalogRegions}

DamageCalls ==
  {[NoCall EXCEPT !.fn = "estimate_building_damage",
                  !.intensity = i, !.region = r] :
     i \in IntensityLevels, r \in DamageRegions}

TsunamiCalls ==
  {[NoCall EXCEPT !.fn = "estimate_tsunami",
                  !.earthquake = eq, !.region = r] :
     eq \in UnitEarthquakes, r \in TsunamiRegions}

CasualtyCalls ==
  {[NoCall EXCEPT !.fn = "estimate_casualties",
                  !.earthquake = eq, !.region = r, !.building_damage = d,
                  !.tsunami = estimate_tsunami(eq, r)] :
     eq \in CasualtyEarthquakes, r \in CasualtyRegions, d \in DamageDicts}

UnitCalls == IntensityCalls \cup DamageCalls \cup TsunamiCalls
             \cup CasualtyCalls

Returned(fn) == call.fn = fn /\ ret.returned

Returns(value) ==
  /\ ~ret.returned
  /\ ret' = [returned |-> TRUE, value |-> value]
  /\ UNCHANGED <<simVars, call>>

CallCalculateSeismicIntensity ==
  /\ call.fn = "calculate_seismic_intensity"
  /\ Returns(calculate_seismic_intensity(call.earthquake, call.region))

CallEstimateBuildingDamage ==
  /\ call.fn = "estimate_building_damage"
  /\ Returns(estimate_building_damage(call.intensity, call.region))

CallEstimateTsunami ==
  /\ call.fn = "estimate_tsunami"
  /\ Returns(estimate_tsunami(call.earthquake, call.region))

CallEstimateCasualties ==
  /\ call.fn = "estimate_casualties"
  /\ Returns(estimate_casualties(call.intensity, call.building_damage,
                                 call.tsunami, call.region))

UnitInit ==
  /\ SimInit
  /\ call \in UnitCalls
  /\ ret = [returned |-> FALSE]

UnitNext ==
  \/ CallCalculateSeismicIntensity
  \/ CallEstimateBuildingDamage
  \/ CallEstimateTsunami
  \/ CallEstimateCasualties

UnitSpec == UnitInit /\ [][UnitNext]_vars

----------------------------------------------------------------------------
(* Properties                                                               *)

\* C1: estimate_building_damage returns four counts that are non-negative,
\* none above region.buildings, and that sum to region.buildings exactly.
C1_DamageCountsPartition ==
  Returned("estimate_building_damage") =>
    LET d == ret.value
        b == call.region.buildings
    IN  /\ d.collapsed \in 0..b
        /\ d.severe \in 0..b
        /\ d.moderate \in 0..b
        /\ d.undamaged \in 0..b
        /\ d.collapsed + d.severe + d.moderate + d.undamaged = b

\* C1 witness: a call in the top tier where every count is positive and
\* the truncations dropped a fraction (severe is odd).
C1_Witness ==
  /\ Returned("estimate_building_damage")
  /\ call.intensity >= 7 * ONE
  /\ ret.value.collapsed > 0
  /\ ret.value.severe % 2 = 1
  /\ ret.value.moderate > 0
  /\ ret.value.undamaged > 0

\* C2: calculate_seismic_intensity returns a value in [0, 7]; an epicentral
\* distance below 1 km is taken as 1 km, so the logarithm is that of 1.
C2_IntensityInRange ==
  Returned("calculate_seismic_intensity") =>
    /\ ret.value >= 0
    /\ ret.value <= 7 * ONE
    /\ EpicentralDistance(call.earthquake, call.region) < ONE =>
         ret.value = Clamp(Mul(RawIntensity(call.earthquake.magnitude, ONE),
                               DepthFactor(call.earthquake)))

\* C2 witness: the epicenter coincides with the region and the clamp acts.
C2_Witness ==
  /\ Returned("calculate_seismic_intensity")
  /\ call.earthquake.epicenter_lat = call.region.lat
  /\ call.earthquake.epicenter_lon = call.region.lon
  /\ EpicentralDistance(call.earthquake, call.region) < ONE
  /\ ret.value = 7 * ONE

\* C3: for a non-coastal region estimate_tsunami returns height 0, arrival
\* time 0 and inundation fraction 0, whatever the earthquake and elevation.
C3_InlandNoTsunami ==
  (Returned("estimate_tsunami") /\ ~call.region.coastal) =>
    ret.value = [height |-> 0, arrival |-> 0, inundation |-> 0]

\* C3 witness: an inland region at sea level that the wave would have
\* reached had it been coastal.
C3_Witness ==
  /\ Returned("estimate_tsunami")
  /\ ~call.region.coastal
  /\ call.region.elevation = 0
  /\ CoastalTsunami(call.earthquake, call.region).height > 0
  /\ CoastalTsunami(call.earthquake, call.region).arrival > 0

\* The raw wave height of the call in hand.
CallRawHeight ==
  RawWaveHeight(call.earthquake.magnitude,
                EpicentralDistance(call.earthquake, call.region))

\* C4: for a coastal region whose elevation is strictly above the raw wave
\* height the reported height and the inundation fraction are 0; with the
\* elevation at or below the raw height the height is not forced to zero:
\* the raw height is what is rounded and what selects the inundation tier.
C4_ElevationProtects ==
  (Returned("estimate_tsunami") /\ call.region.coastal) =>
    IF call.region.elevation * ONE > CallRawHeight
    THEN ret.value.height = 0 /\ ret.value.inundation = 0
    ELSE /\ ret.value.height = RoundTo(CallRawHeight, 100000)
         /\ ret.value.inundation = InundationRate(CallRawHeight)
         /\ ret.value.inundation > 0

\* C4 witness: a coastal region protected by an elevation above a wave
\* that is itself above the lowest tier.
C4_Witness ==
  /\ Returned("estimate_tsunami")
  /\ call.region.coastal
  /\ call.region.elevation * ONE > CallRawHeight
  /\ CallRawHeight > 2 * ONE
  /\ ret.value.height = 0

\* C5: simulate has no hidden state: a call with the parameters of the
\* first call returns the first call's table, whatever ran in between; the
\* catalog is never modified and the parameter record of a running call
\* stays one of the records passed in.
C5_SimulateDeterministic ==
  /\ regions = InitRegions
  /\ pc # "idle" => earthquake \in Earthquakes
  /\ (pc = "done" /\ history.set /\ earthquake = history.earthquake) =>
       results = history.results

\* C5 witness: the first call's parameters were run again after a call with
\* other parameters, and the table has its eight rows.
C5_Witness ==
  /\ pc = "done"
  /\ history.set
  /\ history.between
  /\ history.repeated
  /\ earthquake = history.earthquake
  /\ Len(results) = Len(InitRegions)

\* The rows so far are those of the regions already processed, in order.
RowsArePrefix ==
  pc \in {"loop", "done"} =>
    /\ Len(results) = idx - 1
    /\ Len(results) <= Len(regions)
    /\ \A k \in 1..Len(results) : results[k].region = regions[k].name
    /\ pc = "done" => Len(results) = Len(regions)

\* C6: simulate terminates, the rows being at every moment the prefix of
\* the catalog processed so far and, at the end, one row per region in
\* catalog order.
C6_OneRowPerRegion == [](RowsArePrefix) /\ (pc = "loop" ~> pc = "done")

\* C6 witness: a call has returned its eight rows.
C6_Witness ==
  /\ pc = "done"
  /\ Len(results) = 8
  /\ results[1].region = "Shizuoka"
  /\ results[8].region = "Tokushima"

\* C7: with region, depth and epicenter fixed, a smaller magnitude never
\* gives a larger intensity.
C7_MonotoneInMagnitude ==
  Returned("calculate_seismic_intensity") =>
    \A m \in UnitMagnitudes :
      m <= call.earthquake.magnitude =>
        calculate_seismic_intensity(
          [call.earthquake EXCEPT !.magnitude = m], call.region) <= ret.value

\* C7 witness: two magnitudes with intensities strictly apart and inside
\* the clamp.
C7_Witness ==
  /\ Returned("calculate_seismic_intensity")
  /\ ret.value < 7 * ONE
  /\ \E m \in UnitMagnitudes :
       /\ m < call.earthquake.magnitude
       /\ calculate_seismic_intensity(
            [call.earthquake EXCEPT !.magnitude = m], call.region) > 0
       /\ calculate_seismic_intensity(
            [call.earthquake EXCEPT !.magnitude = m], call.region)
          < ret.value

\* C8: the moderate-damage count is the severe-damage count halved and
\* truncated: moderate = severe div 2.
C8_ModerateIsHalfSevere ==
  Returned("estimate_building_damage") =>
    ret.value.moderate = ret.value.severe \div 2

\* C8 witness: an odd severe count, so that the halving truncates.
C8_Witness ==
  /\ Returned("estimate_building_damage")
  /\ ret.value.severe >= 3
  /\ ret.value.severe % 2 = 1

\* The region of the loop iteration that has just run.
LastRegion == regions[idx - 1]

\* C9: the casualty model decides on the height the tsunami model decided
\* on: an inundation fraction of 0.15 or 0.3 goes with the 0.1 death rate,
\* the fraction 0.05 with the 0.02 rate, and a non-zero fraction with
\* tsunami deaths that are computed, not set to 0.
C9_SameHeightDecides ==
  (pc = "loop" /\ idx > 1 /\ tsunami.inundation > 0) =>
    casualties.deaths =
      Mul(building_damage.collapsed, 10000)
      + IntFix(DivFix(NonEvacuated(tsunami, LastRegion),
                      IF tsunami.inundation \in {150000, 300000}
                      THEN 10 ELSE 50))

=============================================================================
